---- MODULE Spec2Model ----
(***************************************************************************)
(* A model of main.py, the training driver for Variational Autoencoders.   *)
(* The script is one sequential run: parse arguments, create the results   *)
(* directory, select the dataset, build model / optimizer / scheduler,     *)
(* loop over the epochs (train, test, prior samples), save a checkpoint    *)
(* and decode a latent-space traversal.                                    *)
(*                                                                         *)
(* The run is a state machine whose position is pc; an uncaught exception  *)
(* sets err and stops the run where it is (the script has no try/except).  *)
(* Numerical tensor contents are not modelled: tensors are represented by  *)
(* their shapes and by which samples they hold.  Learning rates and the    *)
(* linspace values are exact rationals (numerator, denominator).           *)
(***************************************************************************)
EXTENDS Integers, Sequences, FiniteSets, TLC

(***************************************************************************)
(* Bounds of the model.                                                    *)
(***************************************************************************)
MaxEpochs == 2
MaxZDim == 2
MaxBatchSize == 9
MaxSamples == 10

(***************************************************************************)
(* Program constants.                                                      *)
(***************************************************************************)
MnistImgSize == 28
DspritesImgSize == 64
ReconCap == 8
PriorSamples == 64
nums == 11
LinStart == -3
LinStop == 3
LrBaseDen == 1000
GammaNum == 98
GammaDen == 100

(***************************************************************************)
(* Strings are sequences of one-character strings, so that str.lower() is  *)
(* computed character by character; Join gives the text used in paths.     *)
(***************************************************************************)
CasePairs ==
    { <<"M", "m">>, <<"N", "n">>, <<"I", "i">>, <<"S", "s">>, <<"T", "t">>,
      <<"D", "d">>, <<"P", "p">>, <<"R", "r">>, <<"E", "e">>, <<"C", "c">>,
      <<"F", "f">>, <<"A", "a">> }

LowerChar(c) ==
    IF \E p \in CasePairs : p[1] = c
    THEN (CHOOSE p \in CasePairs : p[1] = c)[2]
    ELSE c

Lower(s) == [k \in 1..Len(s) |-> LowerChar(s[k])]

RECURSIVE Join(_)
Join(s) == IF s = <<>> THEN "" ELSE Head(s) \o Join(Tail(s))

(***************************************************************************)
(* The inputs of a run.                                                    *)
(***************************************************************************)
DataNames ==
    { <<"m", "n", "i", "s", "t">>,
      <<"M", "N", "I", "S", "T">>,
      <<"d", "S", "p", "r", "i", "t", "e", "s">>,
      <<"c", "i", "f", "a", "r">>,
      <<"M", "N", "I", "S">> }

ModelNames == {"betaVAE"}
Betas == {4}
LogIntervals == {0, 1}
LrScheduleFlags == {"exponential", "step"}
BatchSizes == {1, 2, MaxBatchSize}
TrainCounts == {0, 3}
TestCounts == {0, 1, 2, MaxSamples}

ArgSpace ==
    [ data : DataNames,
      model_name : ModelNames,
      z_dim : 1..MaxZDim,
      beta : Betas,
      batch_size : BatchSizes,
      epochs : 0..MaxEpochs,
      log_interval : LogIntervals,
      tensorboard : BOOLEAN,
      lr_schedule : LrScheduleFlags ]

VARIABLES
    args,        \* the parsed command line
    dirs0,       \* directories that existed before the run
    pc,          \* position of the run in the script
    err,         \* the uncaught exception that ended the run, or "none"
    dirs,        \* directories that exist
    writes,      \* files written by this run, in order
    loaders,     \* the data loaders and img_size, or NoLoaders
    model,       \* the VAE module: mode and call counters, or NoModel
    optimizer,   \* Adam: learning rate, step and zero_grad counters
    scheduler,   \* ExponentialLR: number of decay steps
    plot,        \* the loss sink (TensorBoard writer or LossPlot) and what it received
    epoch,       \* the loop variable of the main loop
    batch_idx,   \* the loop variable of train()
    i,           \* the loop variable of test()
    calls,       \* how often train() and test() were entered and returned
    batchOps,    \* the framework calls made by the latest training batch, in order
    lrs,         \* the learning rates the optimizer was given, in order
    z,           \* the latent traversal input, once built
    twin         \* the optimizer of a second run that differs only in args.lr_schedule

vars ==
    << args, dirs0, pc, err, dirs, writes, loaders, model, optimizer, scheduler,
       plot, epoch, batch_idx, i, calls, batchOps, lrs, z, twin >>

NoLoaders == [dataset |-> "none", img_size |-> 0, train_n |-> 0, test_n |-> 0]
NoModel == [built |-> FALSE, training |-> FALSE, img_size |-> 0, z_dim |-> 0,
            forwards |-> 0, losses |-> 0, backwards |-> 0, decodes |-> 0]
NoOptimizer == [built |-> FALSE, lr |-> <<0, 1>>, steps |-> 0, zero_grads |-> 0]
NoScheduler == [built |-> FALSE, steps |-> 0]
NoPlot == [sink |-> "none", train_items |-> 0, test_items |-> 0]

(***************************************************************************)
(* dirName (line 32).                                                      *)
(***************************************************************************)
DirNameOf_Lowered(a) ==
    "results_" \o Join(Lower(a.data)) \o "_" \o a.model_name
        \o "_zdim-" \o ToString(a.z_dim) \o "_beta-" \o ToString(a.beta)

DirNameOf(a) ==
    "results_" \o Join(a.data) \o "_" \o a.model_name
        \o "_zdim-" \o ToString(a.z_dim) \o "_beta-" \o ToString(a.beta)

dirName == DirNameOf(args)

Init ==
    /\ args \in ArgSpace
    /\ dirs0 \in SUBSET {DirNameOf(args),
                         DirNameOf([args EXCEPT !.data = Lower(args.data)])}
    /\ pc = "mkdir"
    /\ err = "none"
    /\ dirs = dirs0
    /\ writes = <<>>
    /\ loaders = NoLoaders
    /\ model = NoModel
    /\ optimizer = NoOptimizer
    /\ scheduler = NoScheduler
    /\ plot = NoPlot
    /\ epoch = 0
    /\ batch_idx = 0
    /\ i = 0
    /\ calls = [train_started |-> 0, train_done |-> 0,
                test_started |-> 0, test_done |-> 0]
    /\ batchOps = <<>>
    /\ lrs = <<>>
    /\ z = <<>>
    /\ twin = [lr_schedule |-> CHOOSE f \in LrScheduleFlags : f # args.lr_schedule,
               lr |-> <<0, 1>>, lrs |-> <<>>]

Running_IgnoreErrors == TRUE

Running == err = "none"

Raise(e) == err' = e

(***************************************************************************)
(* Lines 33-37: create the results directory unless it exists.             *)
(***************************************************************************)
MakeDir ==
    /\ Running /\ pc = "mkdir"
    /\ dirs' = IF dirName \in dirs THEN dirs ELSE dirs \cup {dirName}
    /\ pc' = "load"
    /\ UNCHANGED << args, dirs0, err, writes, loaders, model, optimizer, scheduler,
                    plot, epoch, batch_idx, i, calls, batchOps, lrs, z, twin >>

(***************************************************************************)
(* Lines 42-56: dataset selection on the lower-cased name.                 *)
(***************************************************************************)
SelectDataset_CaseSensitive(name) ==
    IF name = <<"m", "n", "i", "s", "t">> THEN "mnist"
    ELSE IF name = <<"d", "s", "p", "r", "i", "t", "e", "s">> THEN "dsprites"
    ELSE "none"

SelectDataset(name) ==
    IF Lower(name) = <<"m", "n", "i", "s", "t">> THEN "mnist"
    ELSE IF Lower(name) = <<"d", "s", "p", "r", "i", "t", "e", "s">> THEN "dsprites"
    ELSE "none"

ImgSizeOf(dataset) ==
    IF dataset = "mnist" THEN MnistImgSize ELSE DspritesImgSize

LoadData ==
    /\ Running /\ pc = "load"
    /\ \E model_found \in BOOLEAN, train_n \in TrainCounts, test_n \in TestCounts :
         LET dataset == SelectDataset(args.data) IN
         IF dataset = "none"
         THEN /\ Raise("Exception: Dataset not found")
              /\ UNCHANGED << pc, loaders >>
         ELSE IF ~model_found
         THEN \* models[args.model_name]: the registry is not part of this file
              /\ Raise("KeyError: model_name")
              /\ UNCHANGED << pc, loaders >>
         ELSE /\ loaders' = [dataset |-> dataset, img_size |-> ImgSizeOf(dataset),
                             train_n |-> train_n, test_n |-> test_n]
              /\ pc' = "build"
              /\ UNCHANGED err
    /\ UNCHANGED << args, dirs0, dirs, writes, model, optimizer, scheduler,
                    plot, epoch, batch_idx, i, calls, batchOps, lrs, z, twin >>

(***************************************************************************)
(* Lines 64-72: model, Adam with lr = 1e-3, ExponentialLR with gamma 0.98. *)
(* A freshly constructed torch module is in training mode.  No argument    *)
(* of the command line is read for the learning rate or its schedule.      *)
(* twin is the optimizer of a second run started with the same arguments   *)
(* except for the learning-rate-schedule flag; it is built and stepped by  *)
(* the same code, at the same places.                                      *)
(***************************************************************************)
InitialLr(a) == <<1, LrBaseDen>>

DecayLr_FromFlag(a, lr) ==
    IF a.lr_schedule = "step"
    THEN <<lr[1] * 3, lr[2] * 10>>
    ELSE <<lr[1] * GammaNum, lr[2] * GammaDen>>

DecayLr(a, lr) == <<lr[1] * GammaNum, lr[2] * GammaDen>>

TwinArgs == [args EXCEPT !.lr_schedule = twin.lr_schedule]

BuildModel ==
    /\ Running /\ pc = "build"
    /\ model' = [built |-> TRUE, training |-> TRUE, img_size |-> loaders.img_size,
                 z_dim |-> args.z_dim, forwards |-> 0, losses |-> 0,
                 backwards |-> 0, decodes |-> 0]
    /\ optimizer' = [built |-> TRUE, lr |-> InitialLr(args), steps |-> 0,
                     zero_grads |-> 0]
    /\ scheduler' = [built |-> TRUE, steps |-> 0]
    /\ lrs' = <<InitialLr(args)>>
    /\ twin' = [twin EXCEPT !.lr = InitialLr(TwinArgs),
                            !.lrs = <<InitialLr(TwinArgs)>>]
    /\ pc' = "plots"
    /\ UNCHANGED << args, dirs0, err, dirs, writes, loaders, plot, epoch,
                    batch_idx, i, calls, batchOps, z >>

(***************************************************************************)
(* Lines 77-84: the loss sink.                                             *)
(***************************************************************************)
SetupPlots ==
    /\ Running /\ pc = "plots"
    /\ plot' = [sink |-> IF args.tensorboard THEN "writer" ELSE "loss_plot",
                train_items |-> 0, test_items |-> 0]
    /\ pc' = "loop"
    /\ UNCHANGED << args, dirs0, err, dirs, writes, loaders, model, optimizer,
                    scheduler, epoch, batch_idx, i, calls, batchOps, lrs, z, twin >>

(***************************************************************************)
(* Line 157: for epoch in range(1, args.epochs + 1).                       *)
(***************************************************************************)
NextEpoch_Skip(e) == e + 2

NextEpoch(e) == e + 1

LoopHead ==
    /\ Running /\ pc = "loop"
    /\ IF NextEpoch(epoch) <= args.epochs
       THEN /\ epoch' = NextEpoch(epoch)
            /\ pc' = "train"
       ELSE /\ pc' = "save"
            /\ UNCHANGED epoch
    /\ UNCHANGED << args, dirs0, err, dirs, writes, loaders, model, optimizer,
                    scheduler, plot, batch_idx, i, calls, batchOps, lrs, z, twin >>

(***************************************************************************)
(* The batches a DataLoader yields from n samples.  The loaders are built  *)
(* in mnist.py / dsprites.py with batch_size = args.batch_size; as with    *)
(* torch's default (drop_last = False) the last batch may be smaller.      *)
(***************************************************************************)
Min(a, b) == IF a <= b THEN a ELSE b

NumBatches(n, bs) == (n + bs - 1) \div bs

BatchLen(n, bs, k) == Min(bs, n - k * bs)

(***************************************************************************)
(* Lines 91-125: train(epoch).                                             *)
(***************************************************************************)
\* model.train() and model.eval()
TrainMode(m) == [m EXCEPT !.training = TRUE]

EvalMode_Noop(m) == m

EvalMode(m) == [m EXCEPT !.training = FALSE]

TrainStart ==
    /\ Running /\ pc = "train"
    /\ model' = TrainMode(model)
    /\ calls' = [calls EXCEPT !.train_started = @ + 1]
    /\ batch_idx' = 0
    /\ pc' = "train_loop"
    /\ UNCHANGED << args, dirs0, err, dirs, writes, loaders, optimizer, scheduler,
                    plot, epoch, i, batchOps, lrs, z, twin >>

\* Lines 97-113: the framework calls of one training batch, in order.
TrainBatchOps_NoZeroGrad ==
    << "forward", "loss", "backward", "optimizer.step", "plot" >>

TrainBatchOps ==
    << "zero_grad", "forward", "loss", "backward", "optimizer.step", "plot" >>

ApplyOp(op, st) ==
    CASE op = "zero_grad" ->
            [st EXCEPT !.optimizer.zero_grads = @ + 1]
      [] op = "forward" ->
            [st EXCEPT !.model.forwards = @ + 1]
      [] op = "loss" ->
            [st EXCEPT !.model.losses = @ + 1]
      [] op = "backward" ->
            [st EXCEPT !.model.backwards = @ + 1]
      [] op = "optimizer.step" ->
            [st EXCEPT !.optimizer.steps = @ + 1]
      [] op = "plot" ->
            [st EXCEPT !.plot.train_items = @ + 1]
      [] OTHER -> st

RECURSIVE RunOps(_, _)
RunOps(ops, st) ==
    IF ops = <<>> THEN st ELSE RunOps(Tail(ops), ApplyOp(Head(ops), st))

TrainBatch ==
    /\ Running /\ pc = "train_loop"
    /\ batch_idx < NumBatches(loaders.train_n, args.batch_size)
    /\ LET st == RunOps(TrainBatchOps,
                        [model |-> model, optimizer |-> optimizer, plot |-> plot])
       IN /\ model' = st.model
          /\ optimizer' = st.optimizer
          /\ plot' = st.plot
    /\ batchOps' = TrainBatchOps
       \* line 115: batch_idx % args.log_interval
    /\ IF args.log_interval = 0
       THEN /\ Raise("ZeroDivisionError: log_interval")
            /\ UNCHANGED batch_idx
       ELSE /\ batch_idx' = batch_idx + 1
            /\ UNCHANGED err
    /\ UNCHANGED << args, dirs0, pc, dirs, writes, loaders, scheduler, epoch, i,
                    calls, lrs, z, twin >>

TrainEnd ==
    /\ Running /\ pc = "train_loop"
    /\ batch_idx = NumBatches(loaders.train_n, args.batch_size)
       \* line 122: scheduler.step()
    /\ scheduler' = [scheduler EXCEPT !.steps = @ + 1]
    /\ optimizer' = [optimizer EXCEPT !.lr = DecayLr(args, @)]
    /\ lrs' = Append(lrs, DecayLr(args, optimizer.lr))
    /\ twin' = [twin EXCEPT !.lr = DecayLr(TwinArgs, @),
                            !.lrs = Append(@, DecayLr(TwinArgs, twin.lr))]
       \* line 124: running_loss / len(train_loader.sampler)
    /\ IF loaders.train_n = 0
       THEN /\ Raise("ZeroDivisionError: train")
            /\ UNCHANGED << pc, calls >>
       ELSE /\ calls' = [calls EXCEPT !.train_done = @ + 1]
            /\ pc' = "test"
            /\ UNCHANGED err
    /\ UNCHANGED << args, dirs0, dirs, writes, loaders, model, plot, epoch,
                    batch_idx, i, batchOps, z >>

(***************************************************************************)
(* Files.  A write records the directory, the file name, the shape of the  *)
(* saved tensor, the images it holds (for a reconstruction), nrow, and     *)
(* whether the model was in training mode when the content was produced.   *)
(***************************************************************************)
FileWrite(name, shape, images, nrow) ==
    [ dir |-> dirName, name |-> name, shape |-> shape, images |-> images,
      nrow |-> nrow, training |-> model.training ]

ReconName(e) == "reconstruction_" \o ToString(e) \o ".png"

SampleName_NoEpoch(e) == "sample.png"

SampleName(e) == "sample_" \o ToString(e) \o ".png"

CheckpointName(a) == a.model_name \o "_model.pth"

LatentName == "sample_latent_space.png"

RECURSIVE Numel(_)
Numel(shape) == IF shape = <<>> THEN 1 ELSE Head(shape) * Numel(Tail(shape))

\* tensor.view(shape) raises unless the element counts agree
ViewOk(numel, shape) == numel = Numel(shape)

(***************************************************************************)
(* Lines 128-154: test(epoch).                                             *)
(***************************************************************************)
TestStart ==
    /\ Running /\ pc = "test"
    /\ model' = EvalMode(model)
    /\ calls' = [calls EXCEPT !.test_started = @ + 1]
    /\ i' = 0
    /\ pc' = "test_loop"
    /\ UNCHANGED << args, dirs0, err, dirs, writes, loaders, optimizer, scheduler,
                    plot, epoch, batch_idx, batchOps, lrs, z, twin >>

\* Line 139.
ReconCount(size) == Min(size, ReconCap)

\* Line 140: the shape the reconstruction is viewed as.
ReconViewShape == << args.batch_size, 1, loaders.img_size, loaders.img_size >>

\* Line 141: torch.cat([data[:n], recon_batch[:n]]); an image is (kind, index in batch).
Comparison(n) ==
    [k \in 1..n |-> <<"data", k - 1>>] \o [k \in 1..n |-> <<"recon", k - 1>>]

TestBatch ==
    /\ Running /\ pc = "test_loop"
    /\ i < NumBatches(loaders.test_n, args.batch_size)
    /\ model' = [model EXCEPT !.forwards = @ + 1, !.losses = @ + 1]
    /\ LET size == BatchLen(loaders.test_n, args.batch_size, i)
           n == ReconCount(size)
       IN IF i = 0
          THEN IF ViewOk(size * loaders.img_size * loaders.img_size, ReconViewShape)
               THEN /\ writes' = Append(writes,
                          FileWrite(ReconName(epoch),
                                    << 2 * n, 1, loaders.img_size, loaders.img_size >>,
                                    Comparison(n), n))
                    /\ i' = i + 1
                    /\ UNCHANGED err
               ELSE /\ Raise("RuntimeError: view")
                    /\ UNCHANGED << i, writes >>
          ELSE /\ i' = i + 1
               /\ UNCHANGED << err, writes >>
    /\ UNCHANGED << args, dirs0, pc, dirs, loaders, optimizer, scheduler, plot,
                    epoch, batch_idx, calls, batchOps, lrs, z, twin >>

TestEnd ==
    /\ Running /\ pc = "test_loop"
    /\ i = NumBatches(loaders.test_n, args.batch_size)
       \* line 145: test_loss /= len(test_loader.sampler)
    /\ IF loaders.test_n = 0
       THEN /\ Raise("ZeroDivisionError: test")
            /\ UNCHANGED << pc, calls, plot >>
       ELSE /\ plot' = [plot EXCEPT !.test_items = @ + 1]
            /\ calls' = [calls EXCEPT !.test_done = @ + 1]
            /\ pc' = "sample"
            /\ UNCHANGED err
    /\ UNCHANGED << args, dirs0, dirs, writes, loaders, model, optimizer, scheduler,
                    epoch, batch_idx, i, batchOps, lrs, z, twin >>

(***************************************************************************)
(* Lines 161-169: decode 64 prior samples and save them (save_image's      *)
(* default nrow is 8).                                                     *)
(***************************************************************************)
Sample ==
    /\ Running /\ pc = "sample"
    /\ model' = [model EXCEPT !.decodes = @ + 1]
    /\ writes' = Append(writes,
          FileWrite(SampleName(epoch),
                    << PriorSamples, 1, loaders.img_size, loaders.img_size >>,
                    <<>>, 8))
    /\ pc' = "loop"
    /\ UNCHANGED << args, dirs0, err, dirs, loaders, optimizer, scheduler, plot,
                    epoch, batch_idx, i, calls, batchOps, lrs, z, twin >>

(***************************************************************************)
(* Lines 174-179: save the checkpoint.                                     *)
(***************************************************************************)
SaveCheckpoint ==
    /\ Running /\ pc = "save"
    /\ writes' = Append(writes, FileWrite(CheckpointName(args), <<>>, <<>>, 0))
    /\ pc' = "latent"
    /\ UNCHANGED << args, dirs0, err, dirs, loaders, model, optimizer, scheduler,
                    plot, epoch, batch_idx, i, calls, batchOps, lrs, z, twin >>

(***************************************************************************)
(* Lines 184-194: the latent traversal.  np.linspace(start, stop, num)     *)
(* yields start + j * (stop - start) / (num - 1); a value is kept as its   *)
(* numerator over the denominator num - 1.                                 *)
(***************************************************************************)
Linspace(start, stop, num) ==
    [j \in 0..(num - 1) |-> start * (num - 1) + j * (stop - start)]

\* Lines 186-188: zeros of shape (z_dim, nums, z_dim), then z[dim, :, dim] = x_range.
LatentGrid(zd) ==
    LET x_range == Linspace(LinStart, LinStop, nums)
    IN [dim \in 0..(zd - 1) |->
          [j \in 0..(nums - 1) |->
             [c \in 0..(zd - 1) |-> IF c = dim THEN x_range[j] ELSE 0]]]

LatentRows_Transposed(zd) ==
    LET grid == LatentGrid(zd)
    IN [r \in 0..(zd * nums - 1) |->
          [c \in 0..(zd - 1) |-> grid[r % zd][r \div zd][c]]]

\* Line 190: view(z_dim * nums, z_dim) of the row-major contents.
LatentRows(zd) ==
    LET grid == LatentGrid(zd)
        flat == [k \in 0..(zd * nums * zd - 1) |->
                    grid[k \div (nums * zd)][(k \div zd) % nums][k % zd]]
    IN [r \in 0..(zd * nums - 1) |-> [c \in 0..(zd - 1) |-> flat[r * zd + c]]]

LatentSample ==
    /\ Running /\ pc = "latent"
    /\ z' = LatentRows(args.z_dim)
    /\ model' = [model EXCEPT !.decodes = @ + 1]
    /\ writes' = Append(writes,
          FileWrite(LatentName,
                    << args.z_dim * nums, 1, loaders.img_size, loaders.img_size >>,
                    <<>>, nums))
    /\ pc' = "done"
    /\ UNCHANGED << args, dirs0, err, dirs, loaders, optimizer, scheduler, plot,
                    epoch, batch_idx, i, calls, batchOps, lrs, twin >>

Next ==
    \/ MakeDir
    \/ LoadData
    \/ BuildModel
    \/ SetupPlots
    \/ LoopHead
    \/ TrainStart
    \/ TrainBatch
    \/ TrainEnd
    \/ TestStart
    \/ TestBatch
    \/ TestEnd
    \/ Sample
    \/ SaveCheckpoint
    \/ LatentSample

Spec == Init /\ [][Next]_vars

(***************************************************************************)
(* Properties.                                                             *)
(***************************************************************************)
DatasetNotFound == "Exception: Dataset not found"

WriteNames == [k \in 1..Len(writes) |-> writes[k].name]

CountWrites(name) == Cardinality({k \in 1..Len(writes) : writes[k].name = name})

NoCalls == [train_started |-> 0, train_done |-> 0, test_started |-> 0, test_done |-> 0]

C1_Supported(name) ==
    Lower(name) \in { <<"m", "n", "i", "s", "t">>,
                      <<"d", "s", "p", "r", "i", "t", "e", "s">> }

(* C1: a dataset name whose lower-cased form is neither 'mnist' nor        *)
(* 'dsprites' takes the run no further than dataset selection, where the   *)
(* only thing that can happen is the 'Dataset not found' exception, with   *)
(* no loader, model, optimizer, scheduler, plot sink, train or test call   *)
(* and no file written; a name that lower-cases to 'mnist' or 'dsprites'   *)
(* never raises that exception.                                            *)
C1_UnsupportedDatasetFailsFast ==
    /\ ~C1_Supported(args.data) =>
          /\ pc \in {"mkdir", "load"}
          /\ err \in {"none", DatasetNotFound}
          /\ err = DatasetNotFound => pc = "load"
          /\ (pc = "load" /\ err = "none") => ENABLED LoadData
          /\ loaders = NoLoaders /\ model = NoModel
          /\ optimizer = NoOptimizer /\ scheduler = NoScheduler
          /\ plot = NoPlot /\ lrs = <<>>
          /\ calls = NoCalls /\ epoch = 0 /\ batchOps = <<>>
          /\ writes = <<>> /\ z = <<>>
    /\ C1_Supported(args.data) => err # DatasetNotFound
    /\ (C1_Supported(args.data) /\ pc = "load" /\ err = "none") => ENABLED LoadData

C1_Witness ==
    /\ err = DatasetNotFound
    /\ pc = "load"
    /\ args.data = <<"M", "N", "I", "S">>

C10_LoweredDir == DirNameOf([args EXCEPT !.data = Lower(args.data)])

(* C10: the results directory exists from the first step on, whether it    *)
(* was there before or not, and nothing else is created or removed; a run  *)
(* that ends with 'Dataset not found' leaves the directory in place and    *)
(* has written no file; every file goes into that directory; the directory *)
(* name carries the dataset name as given, so a name that is not already   *)
(* lower case selects the dataset of its lower-cased form but a directory  *)
(* different from the lower-cased name's directory.                        *)
C10_ResultsDirectory ==
    LET dir == dirName
        lowered == C10_LoweredDir
    IN /\ pc = "mkdir" => dirs = dirs0
       /\ pc # "mkdir" =>
             /\ dir \in dirs
             /\ dirs = dirs0 \cup {dir}
       /\ (pc = "load" /\ dir \in dirs0) =>
             err \in {"none", DatasetNotFound, "KeyError: model_name"}
       /\ err = DatasetNotFound => (dir \in dirs /\ writes = <<>>)
       /\ \A k \in 1..Len(writes) : writes[k].dir = dir
       /\ args.data # Lower(args.data) =>
             /\ SelectDataset(args.data) = SelectDataset(Lower(args.data))
             /\ dir # lowered
             /\ lowered \in dirs => lowered \in dirs0
       /\ loaders # NoLoaders => loaders.dataset = SelectDataset(Lower(args.data))

C10_Witness ==
    /\ err = DatasetNotFound
    /\ args.data # Lower(args.data)
    /\ dirName \in dirs0
    /\ C10_LoweredDir \notin dirs

C2_Dir ==
    "results_" \o Join(args.data) \o "_" \o args.model_name
        \o "_zdim-" \o ToString(args.z_dim) \o "_beta-" \o ToString(args.beta)

C2_Recon(e) == "reconstruction_" \o ToString(e) \o ".png"

C2_Sample(e) == "sample_" \o ToString(e) \o ".png"

C2_Checkpoint == args.model_name \o "_model.pth"

C2_Expected ==
    { C2_Recon(e) : e \in 1..args.epochs } \cup { C2_Sample(e) : e \in 1..args.epochs }
        \cup { "sample_latent_space.png", C2_Checkpoint }

(* C2: when a run with epochs = E >= 1 and a non-empty test loader has     *)
(* finished without error, the files it wrote into                         *)
(* results_<data>_<model>_zdim-<z>_beta-<b> are reconstruction_<e>.png and *)
(* sample_<e>.png for every e in 1..E, sample_latent_space.png exactly     *)
(* once and <model>_model.pth exactly once; at no time has the run written *)
(* a reconstruction or sample file with an index outside 1..E.             *)
C2_OutputLayout ==
    LET expected == C2_Expected
        dir == C2_Dir
    IN /\ \A k \in 1..Len(writes) :
             /\ writes[k].name \in expected
             /\ writes[k].dir = dir
       /\ (pc = "done" /\ err = "none" /\ args.epochs >= 1 /\ loaders.test_n >= 1) =>
             /\ { writes[k].name : k \in 1..Len(writes) } = expected
             /\ \A e \in 1..args.epochs :
                   CountWrites(C2_Recon(e)) >= 1 /\ CountWrites(C2_Sample(e)) >= 1
             /\ CountWrites("sample_latent_space.png") = 1
             /\ CountWrites(C2_Checkpoint) = 1
             /\ dir \in dirs

C2_Witness ==
    /\ pc = "done" /\ err = "none"
    /\ args.epochs = 2
    /\ loaders.test_n >= 1
    /\ Len(writes) = 6

RECURSIVE Pow(_, _)
Pow(b, n) == IF n = 0 THEN 1 ELSE b * Pow(b, n - 1)

(* C3 as stated: two finished runs of at least one epoch that differ only  *)
(* in the learning-rate-schedule flag have given their optimizers          *)
(* different learning-rate sequences.                                      *)
C3_FlagsControlSchedule ==
    (pc = "done" /\ args.epochs >= 1 /\ twin.lr_schedule # args.lr_schedule)
        => lrs # twin.lrs

(* C3, amended: the learning-rate schedule is fixed by the code and no     *)
(* flag controls it: the optimizer starts at 1e-3 and the rate is          *)
(* multiplied by 0.98 once per train() call, so the k-th rate is           *)
(* 0.98^(k-1) / 1000, and a second run that differs only in the            *)
(* learning-rate-schedule flag gives its optimizer the same sequence.      *)
C3_ScheduleIsFixed ==
    /\ twin.lr_schedule # args.lr_schedule
    /\ lrs = twin.lrs
    /\ optimizer.built =>
          /\ Len(lrs) = scheduler.steps + 1
          /\ optimizer.lr = lrs[Len(lrs)]
          /\ \A k \in 1..Len(lrs) :
                lrs[k] = << Pow(98, k - 1), 1000 * Pow(100, k - 1) >>

C3_Witness ==
    /\ pc = "done"
    /\ args.epochs = 2
    /\ twin.lr_schedule # args.lr_schedule
    /\ Len(lrs) = 3
    /\ lrs = twin.lrs

C4_CheckpointWrites == CountWrites(CheckpointName(args))

(* C4: the checkpoint is written at most once, and only when train and     *)
(* test have returned for every epoch in 1..epochs; while fewer epochs     *)
(* have completed, and in particular after an exception, no checkpoint     *)
(* has been written; after an exception nothing runs again, and train and  *)
(* test are entered at most once per epoch.                                *)
C4_CheckpointOnlyAtEnd ==
    /\ C4_CheckpointWrites <= 1
    /\ C4_CheckpointWrites = 1 =>
          /\ calls.train_done = args.epochs
          /\ calls.test_done = args.epochs
          /\ epoch = args.epochs
          /\ pc \in {"latent", "done"}
          /\ err = "none"
    /\ (calls.train_done < args.epochs \/ calls.test_done < args.epochs)
          => C4_CheckpointWrites = 0
    /\ err # "none" => (C4_CheckpointWrites = 0 /\ ~ENABLED Next)
    /\ calls.train_started <= epoch /\ calls.test_started <= epoch
    /\ epoch <= args.epochs

C4_Witness ==
    /\ err = "RuntimeError: view"
    /\ pc = "test_loop"
    /\ args.epochs = 2
    /\ calls.train_done = 1
    /\ C4_CheckpointWrites = 0

C5_Order(E) ==
    [k \in 1..(2 * E + 2) |->
        IF k = 2 * E + 1 THEN CheckpointName(args)
        ELSE IF k = 2 * E + 2 THEN "sample_latent_space.png"
        ELSE IF k % 2 = 1 THEN "reconstruction_" \o ToString((k + 1) \div 2) \o ".png"
        ELSE "sample_" \o ToString(k \div 2) \o ".png"]

C5_SamplesWritten ==
    Cardinality({k \in 1..Len(writes) :
                    writes[k].name \in { "sample_" \o ToString(e) \o ".png" : e \in 1..args.epochs }})

(* C5: epochs run in the order 1, 2, ..., epochs, none skipped or          *)
(* repeated: the files appear in the order reconstruction_1, sample_1,     *)
(* reconstruction_2, sample_2, ..., checkpoint, latent traversal; test(e)  *)
(* starts only when every training batch of epoch e has had its optimizer  *)
(* step, sample_e is written only when test(e) has returned, and           *)
(* train(e+1) starts only when sample_e has been written.                  *)
C5_SequentialEpochs ==
    /\ Len(writes) <= 2 * args.epochs + 2
    /\ WriteNames = SubSeq(C5_Order(args.epochs), 1, Len(writes))
    /\ epoch \in 0..args.epochs
    /\ pc \in {"train_loop", "test", "test_loop", "sample"} => calls.train_started = epoch
    /\ pc \in {"mkdir", "load", "build", "plots"} => epoch = 0
    /\ pc = "train" => calls.train_started = epoch - 1
    /\ pc \in {"loop", "save", "latent", "done"} => C5_SamplesWritten = epoch
    /\ calls.train_done <= calls.train_started
    /\ calls.test_started <= calls.train_done
    /\ calls.test_done <= calls.test_started
    /\ C5_SamplesWritten <= calls.test_done
    /\ calls.train_started <= C5_SamplesWritten + 1
    /\ loaders # NoLoaders =>
          optimizer.steps >=
              calls.test_started * NumBatches(loaders.train_n, args.batch_size)

C5_Witness ==
    /\ pc = "done"
    /\ args.epochs = 2
    /\ NumBatches(loaders.train_n, args.batch_size) >= 2
    /\ Len(writes) = 6

C6_B == NumBatches(loaders.train_n, args.batch_size)

C6_IsUpdateOp(op) ==
    op \in {"zero_grad", "forward", "loss", "backward", "optimizer.step"}

(* C6: with B training batches per epoch, after k completed epochs the     *)
(* optimizer has taken k*B steps and the scheduler k steps; a training     *)
(* batch calls zero_grad, forward, loss, backward and optimizer.step once  *)
(* each in that order; the scheduler steps once per epoch, after the last  *)
(* batch; test() changes neither the optimizer's nor the scheduler's step  *)
(* count.                                                                  *)
C6_StepCounts ==
    loaders # NoLoaders =>
       /\ batchOps # <<>> =>
             SelectSeq(batchOps, C6_IsUpdateOp)
                = << "zero_grad", "forward", "loss", "backward", "optimizer.step" >>
       /\ (pc \in {"loop", "save", "latent", "done"}) =>
             /\ optimizer.steps = epoch * C6_B
             /\ scheduler.steps = epoch
             /\ calls.train_done = epoch
       /\ (pc \in {"test", "test_loop", "sample"}) =>
             /\ optimizer.steps = epoch * C6_B
             /\ scheduler.steps = epoch
       /\ (pc = "train_loop" /\ err = "none") =>
             /\ optimizer.steps = (epoch - 1) * C6_B + batch_idx
             /\ scheduler.steps = epoch - 1
       /\ optimizer.zero_grads = optimizer.steps
       /\ model.backwards = optimizer.steps
       /\ scheduler.steps * C6_B <= optimizer.steps
       /\ scheduler.steps <= calls.train_done + 1

C6_Witness ==
    /\ pc = "loop"
    /\ epoch = 2
    /\ C6_B = 3
    /\ optimizer.steps = 6
    /\ scheduler.steps = 2

C7_FirstBatchLen == Min(args.batch_size, loaders.test_n)

C7_ReconWrites(e) ==
    {k \in 1..Len(writes) : writes[k].name = "reconstruction_" \o ToString(e) \o ".png"}

C7_ImagesOk(w, n) ==
    /\ Len(w.images) = 2 * n
    /\ \A k \in 1..n : w.images[k] = <<"data", k - 1>>
    /\ \A k \in 1..n : w.images[n + k] = <<"recon", k - 1>>
    /\ w.nrow = n

(* C7: once test(epoch) has taken up the first batch of a non-empty test   *)
(* loader, whatever that batch's size, the reconstruction image of the     *)
(* epoch has been written exactly once, holding the first                  *)
(* n = min(batch size, 8) inputs followed by their n reconstructions, and  *)
(* no exception has been raised by it.                                     *)
C7_ReconstructionForEveryFirstBatch ==
    (pc = "test_loop" /\ loaders.test_n >= 1 /\ (i >= 1 \/ err # "none")) =>
        /\ err = "none"
        /\ Cardinality(C7_ReconWrites(epoch)) = 1
        /\ \A k \in C7_ReconWrites(epoch) :
              C7_ImagesOk(writes[k], Min(C7_FirstBatchLen, 8))

(* The part of C7 the code keeps: when the first test batch is full        *)
(* (test set at least batch_size), the image is written once, on the       *)
(* first batch only, with n = min(batch_size, 8).                          *)
C7_ReconstructionForFullFirstBatch ==
    /\ (pc = "test_loop" /\ loaders.test_n >= args.batch_size /\ i >= 1) =>
          /\ Cardinality(C7_ReconWrites(epoch)) = 1
          /\ \A k \in C7_ReconWrites(epoch) :
                C7_ImagesOk(writes[k], Min(C7_FirstBatchLen, 8))
    /\ (pc = "test_loop" /\ i = 0) => C7_ReconWrites(epoch) = {}
    /\ (pc = "test_loop" /\ loaders.test_n < args.batch_size /\ loaders.test_n >= 1)
          => (i = 0 /\ C7_ReconWrites(epoch) = {})

C7_Witness ==
    /\ pc = "test_loop"
    /\ err = "RuntimeError: view"
    /\ loaders.test_n >= 1
    /\ loaders.test_n < args.batch_size

C7_CappedWitness ==
    /\ pc = "test_loop" /\ i = 2 /\ err = "none"
    /\ C7_FirstBatchLen > 8
    /\ \E k \in C7_ReconWrites(epoch) : Len(writes[k].images) = 16

(* C8: the latent traversal input has z_dim*11 rows of length z_dim; row   *)
(* d*11+j holds, in coordinate d, the j-th of 11 evenly spaced increasing  *)
(* values from -3 to 3 (in tenths: -30 + 6*j) and 0 elsewhere, so the      *)
(* middle row j = 5 of every block is the all-zero vector.                 *)
C8_LatentTraversal ==
    /\ pc = "done" => z # <<>>
    /\ z # <<>> =>
          /\ DOMAIN z = 0..(args.z_dim * 11 - 1)
          /\ \A r \in DOMAIN z : DOMAIN z[r] = 0..(args.z_dim - 1)
          /\ \A d \in 0..(args.z_dim - 1) : \A j \in 0..10 :
                /\ z[d * 11 + j][d] = -30 + 6 * j
                /\ \A c \in 0..(args.z_dim - 1) : c # d => z[d * 11 + j][c] = 0
                /\ j < 10 => z[d * 11 + j][d] < z[d * 11 + j + 1][d]
          /\ \A d \in 0..(args.z_dim - 1) :
                /\ z[d * 11][d] = -3 * 10
                /\ z[d * 11 + 10][d] = 3 * 10
                /\ \A c \in 0..(args.z_dim - 1) : z[d * 11 + 5][c] = 0
          /\ writes[Len(writes)].name = "sample_latent_space.png"
          /\ writes[Len(writes)].nrow = 11
          /\ writes[Len(writes)].shape[1] = args.z_dim * 11

C8_Witness ==
    /\ pc = "done"
    /\ args.z_dim = 2
    /\ z # <<>>
    /\ z[16][1] = 0

C9_Artifacts ==
    {k \in 1..Len(writes) :
        writes[k].name \notin { "reconstruction_" \o ToString(e) \o ".png" : e \in 1..args.epochs }}

(* C9 as stated: every prior-sample image, the checkpoint and the latent   *)
(* traversal are produced with the model in evaluation mode, for every     *)
(* epochs value, epochs = 0 included.                                      *)
C9_ArtifactsInEvalMode ==
    \A k \in C9_Artifacts : ~writes[k].training

(* C9, amended: with epochs >= 1 every prior-sample image, the checkpoint  *)
(* and the latent traversal are produced in evaluation mode: train() puts  *)
(* the model in training mode, test() in evaluation mode, and nothing      *)
(* after test() changes the mode before the next train(); with epochs = 0  *)
(* neither is called and the checkpoint and the latent traversal are       *)
(* produced in the training mode the model is constructed in.              *)
C9_EvalModeAfterFirstEpoch ==
    /\ args.epochs >= 1 => \A k \in C9_Artifacts : ~writes[k].training
    /\ args.epochs = 0 => \A k \in C9_Artifacts : writes[k].training
    /\ (pc \in {"train_loop", "test"} /\ err = "none") => model.training
    /\ pc \in {"test_loop", "sample"} => ~model.training
    /\ (pc \in {"loop", "save", "latent", "done"} /\ epoch >= 1) => ~model.training
    /\ (pc = "train" /\ epoch >= 2) => ~model.training
    /\ (model.built /\ calls.train_started = 0) => model.training
    /\ (pc = "done" /\ args.epochs >= 1) => Cardinality(C9_Artifacts) = args.epochs + 2

C9_Witness ==
    /\ pc = "done"
    /\ args.epochs = 2
    /\ Cardinality(C9_Artifacts) = 4
    /\ \A k \in C9_Artifacts : ~writes[k].training
====
